---- MODULE Spec2Model ----
(***************************************************************************)
(* The coherence phase of librustc_typeck (coherence/mod.rs): the builtin  *)
(* trait guard, the per-trait coherence check, the overlap pass with the   *)
(* automatic `impl Trait for Trait` check, and the driver check_coherence. *)
(* The queries that live in other files (the specialization graph, the     *)
(* orphan checker, the inherent-impl checks) are modelled after spec.md.   *)
(***************************************************************************)
EXTENDS Naturals, Sequences, FiniteSets, TLC

\* ------------------------------------------------------------- bounds
\* Largest number of local trait impls in the crate under check.
MaxImpls == 2
\* Largest number of repeated query requests made after the driver is done.
MaxRequests == 1

\* ------------------------------------------------------- trait universe
\* The lang items the guard compares against (tcx.lang_items()).
lang_items ==
  [sized_trait   |-> "core::marker::Sized",
   unsize_trait  |-> "core::marker::Unsize",
   fn_trait      |-> "core::ops::Fn",
   fn_mut_trait  |-> "core::ops::FnMut",
   fn_once_trait |-> "core::ops::FnOnce"]

\* Two traits of the local crate: Obj is object safe, NoObj is not.
ObjTrait == "crate::Obj"
NoObjTrait == "crate::NoObj"

\* Every trait DefId, in the key order of the BTreeMap krate().trait_impls
\* (the local crate's DefIds sort first).
TraitOrder ==
  << ObjTrait, NoObjTrait, lang_items.sized_trait, lang_items.unsize_trait,
     lang_items.fn_trait, lang_items.fn_mut_trait, lang_items.fn_once_trait >>

TraitIds == { TraitOrder[i] : i \in 1..Len(TraitOrder) }

\* The supertraits each trait declares: Fn: FnMut, FnMut: FnOnce as in core,
\* trait Obj: Fn, trait NoObj: Sized.
DirectSupertraits(t) ==
  CASE t = lang_items.fn_trait     -> { lang_items.fn_mut_trait }
    [] t = lang_items.fn_mut_trait -> { lang_items.fn_once_trait }
    [] t = ObjTrait                -> { lang_items.fn_trait }
    [] t = NoObjTrait              -> { lang_items.sized_trait }
    [] OTHER                       -> {}

\* traits::supertrait_def_ids: the trait itself and, transitively, every
\* supertrait.
RECURSIVE supertrait_closure(_)
supertrait_closure(seen) ==
  LET more == seen \cup UNION { DirectSupertraits(t) : t \in seen }
  IN IF more = seen THEN seen ELSE supertrait_closure(more)

supertrait_def_ids(t) == supertrait_closure({t})

\* tcx.is_object_safe: a trait that requires Self: Sized is not object safe.
is_object_safe(t) == lang_items.sized_trait \notin supertrait_def_ids(t)

\* ---------------------------------------------------------------- types
NoPrincipal == "none"

Ty(sty, principal) == [sty |-> sty, principal |-> principal]
TyInt == Ty("TyInt", NoPrincipal)
TyBool == Ty("TyBool", NoPrincipal)
TyParam == Ty("TyParam", NoPrincipal)
TyError == Ty("TyError", NoPrincipal)
TyDynamic(p) == Ty("TyDynamic", p)

\* The self types an impl of the crate may name.
SelfTypes ==
  { TyInt, TyParam, TyError,
    TyDynamic(ObjTrait), TyDynamic(NoObjTrait), TyDynamic(NoPrincipal) }

\* TypeFoldable::references_error on a trait reference.
references_error(trait_ref) == trait_ref.self_ty.sty = "TyError"

\* The term engine's could-overlap test: a type parameter unifies with
\* every type, two other types only when they are the same type.
could_overlap(a, b) == a = b \/ a.sty = "TyParam" \/ b.sty = "TyParam"

\* The term engine's specificity test: a is strictly more specific than b.
strictly_more_specific(a, b) == b.sty = "TyParam" /\ a.sty # "TyParam"

\* ------------------------------------------------------------- registry
ImplRecords ==
  [ trait_ref : [ def_id : TraitIds, self_ty : SelfTypes ],
    orphan_ok : BOOLEAN ]

\* The impl items of a crate in source order, each with its NodeId.
with_node_ids(items) ==
  [ i \in 1..Len(items) |->
      [ id |-> i, trait_ref |-> items[i].trait_ref,
        orphan_ok |-> items[i].orphan_ok ] ]

\* Registries of at most n impls.
Registries(n) ==
  { with_node_ids(items) : items \in UNION { [ 1..k -> ImplRecords ] : k \in 0..n } }

Features == [ unboxed_closures : BOOLEAN, specialization : BOOLEAN ]

\* Inherent impl blocks: sample contents of the local crate.
InherentBlock(id, head, arg, members) ==
  [ id |-> id, head |-> head, arg |-> arg, members |-> members ]

InherentInputs ==
  { << >>,
    << InherentBlock(101, "S", TyInt, {"area"}),
       InherentBlock(102, "S", TyParam, {"area", "len"}) >>,
    << InherentBlock(101, "S", TyInt, {"area"}),
       InherentBlock(102, "S", TyBool, {"area"}),
       InherentBlock(103, "U", TyParam, {"area"}) >> }

\* ---------------------------------------------------------- diagnostics
Diag(code, impl, other, name, help) ==
  [ code |-> code, impl |-> impl, other |-> other, name |-> name, help |-> help ]

NoGraph == [ built |-> FALSE, nodes |-> {}, edges |-> {} ]

\* The state of one compilation: the inputs and what the phase has done.
InitRun(is, inh, fs) ==
  [ impls         |-> is,
    inherent      |-> inh,
    features      |-> fs,
    pc            |-> "Start",
    coherent_done |-> {},
    graphs        |-> [ t \in TraitIds |-> NoGraph ],
    buckets       |-> << >>,
    diags         |-> << >>,
    orphan_runs   |-> 0,
    overlap_runs  |-> 0 ]

emit(s, d) == [ s EXCEPT !.diags = Append(@, d) ]

\* The impl item with a NodeId.
impl_item(s, node_id) ==
  s.impls[CHOOSE k \in 1..Len(s.impls) : s.impls[k].id = node_id]

\* tcx.impl_trait_ref
impl_trait_ref(s, node_id) == impl_item(s, node_id).trait_ref

\* tcx.hir.trait_impls(def_id): the NodeIds of the local impls of a trait,
\* in source order.
RECURSIVE ids_from(_, _, _)
ids_from(s, def_id, i) ==
  IF i > Len(s.impls) THEN << >>
  ELSE IF s.impls[i].trait_ref.def_id = def_id
       THEN << s.impls[i].id >> \o ids_from(s, def_id, i + 1)
       ELSE ids_from(s, def_id, i + 1)

trait_impls(s, def_id) == ids_from(s, def_id, 1)

\* tcx.hir.krate().trait_impls.keys()
trait_impls_keys(s) ==
  { s.impls[i].trait_ref.def_id : i \in 1..Len(s.impls) }

\* An arbitrary but fixed enumeration of a finite set.
RECURSIVE set_to_seq(_)
set_to_seq(S) ==
  IF S = {} THEN << >>
  ELSE << CHOOSE y \in S : TRUE >> \o set_to_seq(S \ { CHOOSE y \in S : TRUE })

\* The elements of a finite set of NodeIds in ascending order.
RECURSIVE ascending(_)
ascending(S) ==
  IF S = {} THEN << >>
  ELSE << CHOOSE y \in S : \A z \in S : y <= z >>
         \o ascending(S \ { CHOOSE y \in S : \A z \in S : y <= z })

\* ------------------------------------------------- builtin trait guard
\* Lines 83-91: the name of the call trait, or the early return.
EverythingOK == "everything OK"

\* Mutant: the chain of comparisons names FnMut for both Fn and FnMut.
fn_trait_name_merged(did) ==
  IF did = lang_items.fn_trait \/ did = lang_items.fn_mut_trait THEN "FnMut"
  ELSE IF did = lang_items.fn_once_trait THEN "FnOnce"
  ELSE EverythingOK

fn_trait_name(did) ==
  IF did = lang_items.fn_trait THEN "Fn"
  ELSE IF did = lang_items.fn_mut_trait THEN "FnMut"
  ELSE IF did = lang_items.fn_once_trait THEN "FnOnce"
  ELSE EverythingOK

\* Mutant: the feature gate is looked at first and lifts every rejection.
enforce_gate_first(s, impl_def_id, trait_def_id) ==
  IF s.features.unboxed_closures
    THEN s
  ELSE IF trait_def_id = lang_items.sized_trait
    THEN emit(s, Diag("E0322", impl_def_id, 0, "Sized", ""))
  ELSE IF trait_def_id = lang_items.unsize_trait
    THEN emit(s, Diag("E0328", impl_def_id, 0, "Unsize", ""))
  ELSE IF fn_trait_name(trait_def_id) = EverythingOK
    THEN s
  ELSE emit(s, Diag("E0183", impl_def_id, 0, fn_trait_name(trait_def_id),
                    "unboxed_closures"))

enforce_trait_manually_implementable(s, impl_def_id, trait_def_id) ==
  IF trait_def_id = lang_items.sized_trait
    THEN emit(s, Diag("E0322", impl_def_id, 0, "Sized", ""))
  ELSE IF trait_def_id = lang_items.unsize_trait
    THEN emit(s, Diag("E0328", impl_def_id, 0, "Unsize", ""))
  ELSE IF s.features.unboxed_closures
    THEN s
  ELSE IF fn_trait_name(trait_def_id) = EverythingOK
    THEN s
  ELSE emit(s, Diag("E0183", impl_def_id, 0, fn_trait_name(trait_def_id),
                    "unboxed_closures"))

\* Mutant: the guard also runs on an impl whose trait ref has an error.
check_impl_of_unconditional(s, node_id, trait_ref) ==
  enforce_trait_manually_implementable(s, node_id, trait_ref.def_id)

check_impl_of(s, node_id, trait_ref) ==
  IF references_error(trait_ref)
    THEN s
    ELSE enforce_trait_manually_implementable(s, node_id, trait_ref.def_id)

check_impl(s, node_id) == check_impl_of(s, node_id, impl_trait_ref(s, node_id))

\* ------------------------------------------- specialization graph query
\* The guard as the pure function of (trait, features) of spec.md 4.3, which
\* the graph builder consults before it admits a record.
guard_rejects(trait_def_id, features) ==
  \/ trait_def_id \in { lang_items.sized_trait, lang_items.unsize_trait }
  \/ /\ trait_def_id \in { lang_items.fn_trait, lang_items.fn_mut_trait,
                           lang_items.fn_once_trait }
     /\ ~features.unboxed_closures

\* A record the graph builder admits: no error marker, not rejected.
admitted(s, i) ==
  /\ ~references_error(impl_trait_ref(s, i))
  /\ ~guard_rejects(impl_trait_ref(s, i).def_id, s.features)

\* The self type of an impl.
self_ty(s, i) == impl_trait_ref(s, i).self_ty

\* The nodes of g that impl n specializes / that specialize impl n, when the
\* specialization policy allows one impl to specialize another.
specialized_by(s, g, n) ==
  { m \in g.nodes :
      /\ could_overlap(self_ty(s, m), self_ty(s, n))
      /\ s.features.specialization
      /\ strictly_more_specific(self_ty(s, n), self_ty(s, m)) }

specializing(s, g, n) ==
  { m \in g.nodes :
      /\ could_overlap(self_ty(s, m), self_ty(s, n))
      /\ s.features.specialization
      /\ strictly_more_specific(self_ty(s, m), self_ty(s, n)) }

\* The nodes of g that overlap impl n with neither specializing the other.
unrelated_overlaps(s, g, n) ==
  { m \in g.nodes :
      /\ could_overlap(self_ty(s, m), self_ty(s, n))
      /\ ~ ( /\ s.features.specialization
             /\ \/ strictly_more_specific(self_ty(s, n), self_ty(s, m))
                \/ strictly_more_specific(self_ty(s, m), self_ty(s, n)) ) }

overlap_errors(n, conflicts) ==
  [ k \in 1..Len(conflicts) |-> Diag("E0119", n, conflicts[k], "", "") ]

\* One insertion (spec.md 4.2, steps 1 to 3) into acc = [graph, diags]: impl
\* n becomes a node, with its edges <<child, parent>>, and every overlap
\* with an unrelated node is reported.
insert(s, acc, n) ==
  [ graph |-> [ built |-> TRUE,
                nodes |-> acc.graph.nodes \cup {n},
                edges |-> acc.graph.edges
                            \cup { << n, m >> : m \in specialized_by(s, acc.graph, n) }
                            \cup { << m, n >> : m \in specializing(s, acc.graph, n) } ],
    diags |-> acc.diags
                \o overlap_errors(n, ascending(unrelated_overlaps(s, acc.graph, n))) ]

\* The records of a trait are inserted one at a time; a record that is not
\* admitted is left out.
RECURSIVE insert_all(_, _, _)
insert_all(s, acc, ids) ==
  IF ids = << >> THEN acc
  ELSE insert_all(s,
                  IF admitted(s, Head(ids)) THEN insert(s, acc, Head(ids)) ELSE acc,
                  Tail(ids))

\* The query's result is stored and its diagnostics reach the session.
store_graph(s, trait_def_id, r) ==
  [ s EXCEPT !.graphs[trait_def_id] = r.graph,
             !.diags = @ \o r.diags ]

\* The provider of the query: builds the graph of a trait from the registry
\* and reports the overlaps it finds.
specialization_graph_provider(s, trait_def_id) ==
  store_graph(s, trait_def_id,
              insert_all(s,
                         [ graph |-> [ NoGraph EXCEPT !.built = TRUE ],
                           diags |-> << >> ],
                         trait_impls(s, trait_def_id)))

\* tcx.specialization_graph_of: a memoized query.
specialization_graph_of(s, trait_def_id) ==
  IF s.graphs[trait_def_id].built
    THEN s
    ELSE specialization_graph_provider(s, trait_def_id)

\* ---------------------------------------------------------- overlap pass
\* Lines 159-185: the overlap with the automatic `impl Trait for Trait`.
\* Mutant: the object safety of the principal is not looked at.
check_automatic_impl_any_principal(s, node_id, trait_ref) ==
  IF trait_ref.self_ty.sty # "TyDynamic" THEN s
  ELSE IF trait_ref.self_ty.principal = NoPrincipal THEN s
  ELSE IF trait_ref.def_id \in supertrait_def_ids(trait_ref.self_ty.principal)
    THEN emit(s, Diag("E0371", node_id, 0, "", ""))
  ELSE s

check_automatic_impl(s, node_id, trait_ref) ==
  IF trait_ref.self_ty.sty # "TyDynamic" THEN s
  ELSE IF \/ trait_ref.self_ty.principal = NoPrincipal
          \/ ~is_object_safe(trait_ref.self_ty.principal)
    THEN s
  ELSE IF trait_ref.def_id \in supertrait_def_ids(trait_ref.self_ty.principal)
    THEN emit(s, Diag("E0371", node_id, 0, "", ""))
  ELSE s

\* Mutant: the graph of the trait is not requested.
check_impl_overlap_of_without_graph(s, node_id, trait_ref) ==
  IF references_error(trait_ref) THEN s
  ELSE check_automatic_impl(s, node_id, trait_ref)

\* Mutant: an impl the guard rejects is skipped like one with an error.
check_impl_overlap_of_skip_rejected(s, node_id, trait_ref) ==
  IF references_error(trait_ref) \/ guard_rejects(trait_ref.def_id, s.features) THEN s
  ELSE check_automatic_impl(specialization_graph_of(s, trait_ref.def_id),
                            node_id, trait_ref)

\* Mutant: the graph is built by a direct call, not through the query.
check_impl_overlap_of_rebuilds(s, node_id, trait_ref) ==
  IF references_error(trait_ref) THEN s
  ELSE check_automatic_impl(specialization_graph_provider(s, trait_ref.def_id),
                            node_id, trait_ref)

check_impl_overlap_of(s, node_id, trait_ref) ==
  IF references_error(trait_ref) THEN s
  ELSE check_automatic_impl(specialization_graph_of(s, trait_ref.def_id),
                            node_id, trait_ref)

check_impl_overlap(s, node_id) ==
  check_impl_overlap_of(s, node_id, impl_trait_ref(s, node_id))

\* builtin::check_trait: the Drop, Copy and CoerceUnsized checks; none of
\* their diagnostics belongs to the coherence taxonomy.
builtin_check_trait(s, def_id) == s

\* Lines 119-121.
RECURSIVE for_each_check_impl(_, _)
for_each_check_impl(s, ids) ==
  IF ids = << >> THEN s
  ELSE for_each_check_impl(check_impl(s, Head(ids)), Tail(ids))

\* Lines 122-124.
RECURSIVE for_each_check_impl_overlap(_, _)
for_each_check_impl_overlap(s, ids) ==
  IF ids = << >> THEN s
  ELSE for_each_check_impl_overlap(check_impl_overlap(s, Head(ids)), Tail(ids))

coherent_trait(s, def_id) ==
  builtin_check_trait(
    for_each_check_impl_overlap(
      for_each_check_impl(s, trait_impls(s, def_id)),
      trait_impls(s, def_id)),
    def_id)

\* queries::coherent_trait::ensure: runs the provider once per trait.
ensure_coherent_trait(s, def_id) ==
  IF def_id \in s.coherent_done THEN s
  ELSE [ coherent_trait(s, def_id) EXCEPT !.coherent_done = @ \cup {def_id} ]

\* ------------------------------------------------- the other checkers
\* unsafety::check: its diagnostics are outside the coherence taxonomy.
unsafety_check(s) == s

\* orphan::check (spec.md 4.4 and 7): every local impl of a trait is checked
\* once; an impl with an error marker is skipped.
orphan_check_impl(s, item) ==
  IF ~references_error(item.trait_ref) /\ ~item.orphan_ok
    THEN emit(s, Diag("E0117", item.id, 0, "", ""))
    ELSE s

RECURSIVE orphan_visit(_, _)
orphan_visit(s, i) ==
  IF i > Len(s.impls) THEN s
  ELSE orphan_visit(orphan_check_impl(s, s.impls[i]), i + 1)

orphan_check(s) ==
  [ orphan_visit(s, 1) EXCEPT !.orphan_runs = @ + 1 ]

\* crate_inherent_impls: the inherent blocks by head type constructor.
bucket_of(s, head) ==
  [ head |-> head, blocks |-> SelectSeq(s.inherent, LAMBDA b : b.head = head) ]

buckets_of(s, heads) == [ k \in 1..Len(heads) |-> bucket_of(s, heads[k]) ]

crate_inherent_impls(s) ==
  [ s EXCEPT !.buckets =
      buckets_of(s, set_to_seq({ s.inherent[i].head : i \in 1..Len(s.inherent) })) ]

\* The collisions of one pair of blocks of a bucket (spec.md 4.5).
member_collisions(a, b, names) ==
  [ k \in 1..Len(names) |-> Diag("E0592", a.id, b.id, names[k], "") ]

pair_collisions(a, b) ==
  IF could_overlap(a.arg, b.arg)
    THEN member_collisions(a, b, set_to_seq(a.members \cap b.members))
    ELSE << >>

RECURSIVE bucket_collisions(_, _, _)
bucket_collisions(blocks, i, j) ==
  IF i >= Len(blocks) THEN << >>
  ELSE IF j > Len(blocks) THEN bucket_collisions(blocks, i + 1, i + 2)
  ELSE pair_collisions(blocks[i], blocks[j])
         \o bucket_collisions(blocks, i, j + 1)

RECURSIVE all_collisions(_, _)
all_collisions(buckets, k) ==
  IF k > Len(buckets) THEN << >>
  ELSE bucket_collisions(buckets[k].blocks, 1, 2) \o all_collisions(buckets, k + 1)

\* crate_inherent_impls_overlap_check
crate_inherent_impls_overlap_check(s) ==
  [ s EXCEPT !.diags = @ \o all_collisions(s.buckets, 1),
             !.overlap_runs = @ + 1 ]

\* ---------------------------------------------------------------- driver
\* The keys of krate().trait_impls the loop of check_coherence has not
\* visited yet, in key order.
\* Mutant: the loop visits every trait, with local impls or not.
remaining_keys_of_all_traits(s) ==
  SelectSeq(TraitOrder, LAMBDA t : t \notin s.coherent_done)

remaining_keys(s) ==
  SelectSeq(TraitOrder,
            LAMBDA t : t \in trait_impls_keys(s) /\ t \notin s.coherent_done)

in_trait_loop(s) == s.pc \in { "Start", "ForEachTrait" }

\* One iteration of the loop over the traits with local impls.
coherent_trait_step(s) ==
  [ ensure_coherent_trait(s, Head(remaining_keys(s))) EXCEPT !.pc = "ForEachTrait" ]

\* Mutant: the phase ends after the trait loop when errors were reported.
unsafety_step_abort_on_errors(s) ==
  [ unsafety_check(s) EXCEPT !.pc = IF s.diags = << >> THEN "Orphan" ELSE "Done" ]

\* Mutant: the orphan check runs only over a crate without errors so far.
orphan_step_only_if_clean(s) ==
  [ s EXCEPT !.diags = IF s.diags = << >> THEN orphan_check(s).diags ELSE @,
             !.orphan_runs = @ + 1,
             !.pc = "InherentImpls" ]

unsafety_step(s) == [ unsafety_check(s) EXCEPT !.pc = "Orphan" ]

orphan_step(s) == [ orphan_check(s) EXCEPT !.pc = "InherentImpls" ]

inherent_impls_step(s) == [ crate_inherent_impls(s) EXCEPT !.pc = "InherentOverlap" ]

inherent_overlap_step(s) ==
  [ crate_inherent_impls_overlap_check(s) EXCEPT !.pc = "Done" ]

\* check_coherence, one call at a time.
check_coherence(s) ==
  CASE in_trait_loop(s) /\ remaining_keys(s) # << >> -> coherent_trait_step(s)
    [] in_trait_loop(s) /\ remaining_keys(s) = << >> -> unsafety_step(s)
    [] s.pc = "Orphan"                               -> orphan_step(s)
    [] s.pc = "InherentImpls"                        -> inherent_impls_step(s)
    [] s.pc = "InherentOverlap"                      -> inherent_overlap_step(s)
    [] OTHER                                         -> s

\* A query another phase asks again once coherence is done.
requery(s, query, def_id) ==
  IF s.pc # "Done" THEN s
  ELSE IF query = "coherent_trait" THEN ensure_coherent_trait(s, def_id)
  ELSE specialization_graph_of(s, def_id)

Queries == { "coherent_trait", "specialization_graph_of" }

\* ----------------------------------------------------------------- state
VARIABLES
  impls,          \* the local trait impls (krate().trait_impls), with NodeIds
  inherent,       \* the local inherent impl blocks
  features,       \* tcx.features()
  pc,             \* where check_coherence stands
  coherent_done,  \* the traits whose coherent_trait query has run
  graphs,         \* the specialization_graph_of query cache, by trait
  buckets,        \* the result of crate_inherent_impls
  diags,          \* the diagnostics emitted so far (tcx.sess), in order
  orphan_runs,    \* how many times orphan::check has run
  overlap_runs,   \* how many times the inherent overlap check has run
  requests,       \* queries asked again after Done
  twin            \* a second compilation, of a crate that differs in one impl

vars ==
  << impls, inherent, features, pc, coherent_done, graphs, buckets, diags,
     orphan_runs, overlap_runs, requests, twin >>

\* The compilation as one record, as the operators above take it.
Cur ==
  [ impls         |-> impls,
    inherent      |-> inherent,
    features      |-> features,
    pc            |-> pc,
    coherent_done |-> coherent_done,
    graphs        |-> graphs,
    buckets       |-> buckets,
    diags         |-> diags,
    orphan_runs   |-> orphan_runs,
    overlap_runs  |-> overlap_runs ]

Commit(s) ==
  /\ pc' = s.pc
  /\ coherent_done' = s.coherent_done
  /\ graphs' = s.graphs
  /\ buckets' = s.buckets
  /\ diags' = s.diags
  /\ orphan_runs' = s.orphan_runs
  /\ overlap_runs' = s.overlap_runs
  /\ UNCHANGED << impls, inherent, features >>

\* No second compilation.
NoTwin == [ mode |-> "none", k |-> 0, run |-> InitRun(<< >>, << >>, [ unboxed_closures |-> FALSE, specialization |-> FALSE ]) ]

\* The crate with the orphan legality of impl k toggled.
toggle_orphan(is, k) == [ is EXCEPT ![k].orphan_ok = ~@ ]

\* The crate without impl k; the other impls keep their NodeIds.
remove_impl(is, k) == SubSeq(is, 1, k - 1) \o SubSeq(is, k + 1, Len(is))

Twins(is, inh, fs) ==
  { [ mode |-> "toggle_orphan", k |-> k, run |-> InitRun(toggle_orphan(is, k), inh, fs) ]
      : k \in 1..Len(is) }
  \cup
  { [ mode |-> "remove_error", k |-> k, run |-> InitRun(remove_impl(is, k), inh, fs) ]
      : k \in { j \in 1..Len(is) : references_error(is[j].trait_ref) } }

StepTwin ==
  twin' = IF twin.mode = "none" THEN twin
          ELSE [ twin EXCEPT !.run = check_coherence(@) ]

InitInputs ==
  /\ impls \in Registries(MaxImpls)
  /\ inherent \in InherentInputs
  /\ features \in Features
  /\ pc = "Start"
  /\ coherent_done = {}
  /\ graphs = [ t \in TraitIds |-> NoGraph ]
  /\ buckets = << >>
  /\ diags = << >>
  /\ orphan_runs = 0
  /\ overlap_runs = 0
  /\ requests = 0

Init == InitInputs /\ twin = NoTwin

InitTwin == InitInputs /\ twin \in Twins(impls, inherent, features)

\* ---------------------------------------------------------------- actions
\* check_coherence, lines 129-131: the next trait with local impls.
EnsureCoherentTrait ==
  /\ in_trait_loop(Cur)
  /\ remaining_keys(Cur) # << >>
  /\ Commit(coherent_trait_step(Cur))
  /\ StepTwin
  /\ UNCHANGED requests

\* line 133
UnsafetyCheck ==
  /\ in_trait_loop(Cur)
  /\ remaining_keys(Cur) = << >>
  /\ Commit(unsafety_step(Cur))
  /\ StepTwin
  /\ UNCHANGED requests

\* line 134
OrphanCheck ==
  /\ pc = "Orphan"
  /\ Commit(orphan_step(Cur))
  /\ StepTwin
  /\ UNCHANGED requests

\* line 137
CrateInherentImpls ==
  /\ pc = "InherentImpls"
  /\ Commit(inherent_impls_step(Cur))
  /\ StepTwin
  /\ UNCHANGED requests

\* line 138
InherentOverlapCheck ==
  /\ pc = "InherentOverlap"
  /\ Commit(inherent_overlap_step(Cur))
  /\ StepTwin
  /\ UNCHANGED requests

\* A later phase asks one of the queries again.
Requery ==
  /\ pc = "Done"
  /\ requests < MaxRequests
  /\ \E q \in Queries, t \in TraitIds :
       /\ Commit(requery(Cur, q, t))
       /\ twin' = IF twin.mode = "none" THEN twin
                  ELSE [ twin EXCEPT !.run = requery(@, q, t) ]
  /\ requests' = requests + 1

Next ==
  \/ EnsureCoherentTrait
  \/ UnsafetyCheck
  \/ OrphanCheck
  \/ CrateInherentImpls
  \/ InherentOverlapCheck
  \/ Requery

Spec == Init /\ [][Next]_vars

\* Two compilations side by side.
SpecTwin == InitTwin /\ [][Next]_vars

\* ------------------------------------------------- reading a compilation
NodeIds(r) == { r.impls[k].id : k \in 1..Len(r.impls) }

TraitOf(r, i) == impl_trait_ref(r, i).def_id

HasError(r, i) == impl_trait_ref(r, i).self_ty.sty = "TyError"

GuardCodes == { "E0322", "E0328", "E0183" }

\* How many diagnostics with this code are about impl i.
CountOf(r, code, i) ==
  Cardinality({ k \in 1..Len(r.diags) :
                  r.diags[k].code = code /\ r.diags[k].impl = i })

\* How many guard diagnostics are about impl i.
GuardCount(r, i) ==
  Cardinality({ k \in 1..Len(r.diags) :
                  r.diags[k].code \in GuardCodes /\ r.diags[k].impl = i })

\* The diagnostics that name impl i, as subject or as the other party.
Naming(r, i) ==
  { k \in 1..Len(r.diags) : r.diags[k].impl = i \/ r.diags[k].other = i }

\* An OverlapConflict that names the pair.
ConflictReported(r, i, j) ==
  \E k \in 1..Len(r.diags) :
    /\ r.diags[k].code = "E0119"
    /\ { r.diags[k].impl, r.diags[k].other } = { i, j }

\* The guard has looked at the impls of this impl's trait.
Checked(r, i) == TraitOf(r, i) \in r.coherent_done

AxiomaticTraits == { lang_items.sized_trait, lang_items.unsize_trait }

CallTraits ==
  { lang_items.fn_trait, lang_items.fn_mut_trait, lang_items.fn_once_trait }

\* The trait is a supertrait of the principal, reflexively and transitively,
\* read off the declarations.
DeclaredSupertrait(t, p) ==
  \/ t = p
  \/ t \in DirectSupertraits(p)
  \/ \E m \in DirectSupertraits(p) :
       \/ t \in DirectSupertraits(m)
       \/ \E m2 \in DirectSupertraits(m) : t \in DirectSupertraits(m2)

\* The traits whose declaration makes them unusable as an object type.
DeclaredObjectSafe(p) == p # NoObjTrait /\ p # lang_items.sized_trait

\* An impl of a trait for the object type of a trait that has it as supertrait.
AutomaticConflict(r, i) ==
  /\ impl_trait_ref(r, i).self_ty.sty = "TyDynamic"
  /\ impl_trait_ref(r, i).self_ty.principal # NoPrincipal
  /\ DeclaredObjectSafe(impl_trait_ref(r, i).self_ty.principal)
  /\ DeclaredSupertrait(TraitOf(r, i), impl_trait_ref(r, i).self_ty.principal)

\* ---------------------------------------------------------------- claims
\* C1: once the driver is done, any two distinct admitted impls of a trait
\* (no error marker, no guard diagnostic) either cannot overlap, or one is
\* recorded in the graph as specializing the other, or an OverlapConflict
\* naming the pair has been emitted.
C1_Uniqueness ==
  pc = "Done" =>
    \A i \in NodeIds(Cur), j \in NodeIds(Cur) :
      ( /\ i # j
        /\ TraitOf(Cur, i) = TraitOf(Cur, j)
        /\ ~HasError(Cur, i) /\ ~HasError(Cur, j)
        /\ GuardCount(Cur, i) = 0 /\ GuardCount(Cur, j) = 0 )
      => \/ ~could_overlap(self_ty(Cur, i), self_ty(Cur, j))
         \/ << i, j >> \in graphs[TraitOf(Cur, i)].edges
         \/ << j, i >> \in graphs[TraitOf(Cur, i)].edges
         \/ ConflictReported(Cur, i, j)

C1_Witness ==
  /\ pc = "Done"
  /\ \E i \in NodeIds(Cur), j \in NodeIds(Cur) :
       /\ i # j
       /\ TraitOf(Cur, i) = TraitOf(Cur, j)
       /\ features.specialization
       /\ self_ty(Cur, i) = self_ty(Cur, j)
       /\ GuardCount(Cur, i) = 0
       /\ graphs[TraitOf(Cur, i)].edges = {}
       /\ ConflictReported(Cur, i, j)

\* C2: an impl of Sized or Unsize without error marker gets exactly one
\* guard diagnostic once its trait is checked, E0322 for Sized and E0328 for
\* Unsize, whatever the value of unboxed_closures.
C2_AxiomaticRejected ==
  \A i \in NodeIds(Cur) :
    ( TraitOf(Cur, i) \in AxiomaticTraits /\ ~HasError(Cur, i) ) =>
      /\ GuardCount(Cur, i) = IF Checked(Cur, i) THEN 1 ELSE 0
      /\ CountOf(Cur,
                 IF TraitOf(Cur, i) = lang_items.sized_trait THEN "E0322" ELSE "E0328",
                 i) = GuardCount(Cur, i)

C2_Witness ==
  /\ pc = "Done"
  /\ features.unboxed_closures
  /\ \E i \in NodeIds(Cur), j \in NodeIds(Cur) :
       /\ TraitOf(Cur, i) = lang_items.sized_trait
       /\ TraitOf(Cur, j) = lang_items.unsize_trait
       /\ CountOf(Cur, "E0322", i) = 1
       /\ CountOf(Cur, "E0328", j) = 1

\* The name the E0183 diagnostic must carry for a call trait.
VariantName(t) ==
  CASE t = lang_items.fn_trait      -> "Fn"
    [] t = lang_items.fn_mut_trait  -> "FnMut"
    [] t = lang_items.fn_once_trait -> "FnOnce"

\* C3: an impl of Fn, FnMut or FnOnce without error marker gets, with
\* unboxed_closures off, exactly one guard diagnostic, an E0183 that names
\* the variant implemented and suggests unboxed_closures; with the flag on
\* it gets none. An impl of any trait outside the five gets none.
C3_CallTraitsGated ==
  \A i \in NodeIds(Cur) :
    /\ ( TraitOf(Cur, i) \in CallTraits /\ ~HasError(Cur, i) ) =>
         IF features.unboxed_closures
           THEN GuardCount(Cur, i) = 0
           ELSE /\ GuardCount(Cur, i) = IF Checked(Cur, i) THEN 1 ELSE 0
                /\ \A k \in 1..Len(diags) :
                     ( diags[k].impl = i /\ diags[k].code \in GuardCodes ) =>
                       /\ diags[k].code = "E0183"
                       /\ diags[k].name = VariantName(TraitOf(Cur, i))
                       /\ diags[k].help = "unboxed_closures"
    /\ TraitOf(Cur, i) \notin ( AxiomaticTraits \cup CallTraits ) =>
         GuardCount(Cur, i) = 0

C3_Witness ==
  /\ pc = "Done"
  /\ ~features.unboxed_closures
  /\ \E i \in NodeIds(Cur), j \in NodeIds(Cur) :
       /\ TraitOf(Cur, i) = lang_items.fn_mut_trait
       /\ TraitOf(Cur, j) = ObjTrait
       /\ ~HasError(Cur, j)
       /\ \E k \in 1..Len(diags) :
            diags[k] = Diag("E0183", i, 0, "FnMut", "unboxed_closures")

\* The guard rejects the impl: an axiomatic trait, or a call trait with the
\* feature off.
Rejected(r, i) ==
  /\ ~HasError(r, i)
  /\ \/ TraitOf(r, i) \in AxiomaticTraits
     \/ TraitOf(r, i) \in CallTraits /\ ~r.features.unboxed_closures

C5_AutomaticConflict ==
  \A i \in NodeIds(Cur) :
    ~HasError(Cur, i) =>
      CountOf(Cur, "E0371", i) =
        IF Checked(Cur, i) /\ AutomaticConflict(Cur, i) THEN 1 ELSE 0

C5_Witness ==
  /\ pc = "Done"
  /\ \E i \in NodeIds(Cur), j \in NodeIds(Cur) :
       /\ TraitOf(Cur, i) = lang_items.fn_once_trait
       /\ self_ty(Cur, i) = TyDynamic(ObjTrait)
       /\ CountOf(Cur, "E0371", i) = 1
       /\ TraitOf(Cur, j) = NoObjTrait
       /\ self_ty(Cur, j) = TyDynamic(NoObjTrait)
       /\ CountOf(Cur, "E0371", j) = 0

\* Every local impl of the trait carries an error marker.
OnlyErrorImpls(r, t) ==
  /\ t \in trait_impls_keys(r)
  /\ \A i \in NodeIds(r) : TraitOf(r, i) = t => HasError(r, i)

\* C6: an impl with an error marker is named by no diagnostic of any kind;
\* a trait all of whose local impls carry an error marker has no graph built
\* by the driver; and a compilation of the crate without that impl emits
\* the same diagnostics, in the same order, and builds the same graphs.
C6_ErrorImplSkipped ==
  /\ \A i \in NodeIds(Cur) : HasError(Cur, i) => Naming(Cur, i) = {}
  /\ \A t \in TraitIds :
       ( OnlyErrorImpls(Cur, t) /\ requests = 0 ) => ~graphs[t].built
  /\ ( twin.mode = "remove_error" /\ pc = "Done" /\ twin.run.pc = "Done" ) =>
       /\ twin.run.diags = diags
       /\ twin.run.graphs = graphs

C6_Witness ==
  /\ twin.mode = "remove_error"
  /\ pc = "Done"
  /\ twin.run.pc = "Done"
  /\ requests = 0
  /\ Len(impls) = 2
  /\ TraitOf(Cur, 1) = TraitOf(Cur, 2)
  /\ TraitOf(Cur, 1) = lang_items.sized_trait
  /\ ~impls[3 - twin.k].orphan_ok
  /\ ~impls[twin.k].orphan_ok
  /\ Len(diags) = 2

\* ------------------------------------- what each stage has to report
DiagSet(r) == { r.diags[k] : k \in 1..Len(r.diags) }

ExpectedGuard(r) ==
  { Diag("E0322", i, 0, "Sized", "") :
      i \in { n \in NodeIds(r) :
                ~HasError(r, n) /\ TraitOf(r, n) = lang_items.sized_trait } }
  \cup
  { Diag("E0328", i, 0, "Unsize", "") :
      i \in { n \in NodeIds(r) :
                ~HasError(r, n) /\ TraitOf(r, n) = lang_items.unsize_trait } }
  \cup
  { Diag("E0183", i, 0, VariantName(TraitOf(r, i)), "unboxed_closures") :
      i \in { n \in NodeIds(r) :
                /\ ~HasError(r, n)
                /\ TraitOf(r, n) \in CallTraits
                /\ ~r.features.unboxed_closures } }

ExpectedAutomatic(r) ==
  { Diag("E0371", i, 0, "", "") :
      i \in { n \in NodeIds(r) : ~HasError(r, n) /\ AutomaticConflict(r, n) } }

\* i and j overlap and neither may specialize the other.
UnrelatedOverlap(r, i, j) ==
  /\ could_overlap(self_ty(r, i), self_ty(r, j))
  /\ \/ ~r.features.specialization
     \/ self_ty(r, i) = self_ty(r, j)

ExpectedOverlap(r) ==
  { Diag("E0119", p[2], p[1], "", "") :
      p \in { q \in NodeIds(r) \X NodeIds(r) :
                /\ q[1] < q[2]
                /\ TraitOf(r, q[1]) = TraitOf(r, q[2])
                /\ ~HasError(r, q[1]) /\ ~HasError(r, q[2])
                /\ ~Rejected(r, q[1])
                /\ UnrelatedOverlap(r, q[1], q[2]) } }

ExpectedOrphan(r) ==
  { Diag("E0117", i, 0, "", "") :
      i \in { n \in NodeIds(r) : ~HasError(r, n) /\ ~impl_item(r, n).orphan_ok } }

ExpectedCollisions(r) ==
  { Diag("E0592", r.inherent[p[1]].id, r.inherent[p[2]].id, p[3], "") :
      p \in { q \in (1..Len(r.inherent)) \X (1..Len(r.inherent)) \X { "area", "len" } :
                /\ q[1] < q[2]
                /\ r.inherent[q[1]].head = r.inherent[q[2]].head
                /\ could_overlap(r.inherent[q[1]].arg, r.inherent[q[2]].arg)
                /\ q[3] \in r.inherent[q[1]].members
                /\ q[3] \in r.inherent[q[2]].members } }

ExpectedAll(r) ==
  ExpectedGuard(r) \cup ExpectedAutomatic(r) \cup ExpectedOverlap(r)
    \cup ExpectedOrphan(r) \cup ExpectedCollisions(r)

AllReported ==
  /\ DiagSet(Cur) = ExpectedAll(Cur)
  /\ Len(diags) = Cardinality(ExpectedAll(Cur))
  /\ trait_impls_keys(Cur) \subseteq coherent_done
  /\ orphan_runs = 1
  /\ overlap_runs = 1

\* The calls check_coherence has still to make: the traits left in the loop
\* and the four calls after it.
StepsLeft ==
  IF pc = "Done" THEN 0
  ELSE IF pc = "InherentOverlap" THEN 1
  ELSE IF pc = "InherentImpls" THEN 2
  ELSE IF pc = "Orphan" THEN 3
  ELSE 4 + Len(remaining_keys(Cur))

\* The guard of one of the driver's calls holds: check_coherence can go on.
DriverCanStep ==
  \/ in_trait_loop(Cur)
  \/ pc \in { "Orphan", "InherentImpls", "InherentOverlap" }

\* C7: the driver reaches Done from Start whatever the crate holds and
\* whatever is reported on the way: before Done a next call is always
\* there to make, every call leaves fewer calls to make, and at Done every
\* stage has run and the diagnostics are those of all the stages together
\* (guard, overlap, trait-object, orphan and inherent), each once.
C7_ReachesDoneWithAll ==
  /\ [](pc # "Done" => DriverCanStep)
  /\ [][pc # "Done" => StepsLeft' < StepsLeft]_vars
  /\ [](pc = "Done" => AllReported)

C7_Witness ==
  /\ pc = "Done"
  /\ ExpectedGuard(Cur) # {}
  /\ ExpectedAutomatic(Cur) # {}
  /\ ExpectedOrphan(Cur) # {}
  /\ ExpectedCollisions(Cur) # {}
  /\ Len(diags) >= 5

\* The trait has a local impl without error marker.
HasSoundImpl(r, t) ==
  \E i \in NodeIds(r) : TraitOf(r, i) = t /\ ~HasError(r, i)

NoDuplicateDiagnostics ==
  \A k \in 1..Len(diags), m \in 1..Len(diags) : diags[k] = diags[m] => k = m

\* A graph that has been built is what every later request returns.
GraphsKept ==
  \A t \in TraitIds : graphs[t].built => graphs'[t] = graphs[t]

\* A query asked again once the driver is done emits nothing.
RepeatedRequestsSilent == pc = "Done" => diags' = diags

\* C9: asking for the coherence check or the graph of a trait again returns
\* the graph built the first time, with the same nodes and edges, and emits
\* nothing again: no diagnostic is ever in the sink twice.
C9_QueriesIdempotent ==
  /\ []NoDuplicateDiagnostics
  /\ [][GraphsKept /\ RepeatedRequestsSilent]_vars

C9_Witness ==
  /\ requests = 1
  /\ \E i \in NodeIds(Cur), j \in NodeIds(Cur) :
       /\ i # j
       /\ ConflictReported(Cur, i, j)
       /\ graphs[TraitOf(Cur, i)].nodes = { i, j }

\* The diagnostics of a compilation other than the orphan violations.
NotOrphan(d) == d.code # "E0117"

\* C10: two compilations of crates that differ only in the orphan legality
\* of one impl build the same graphs and emit the same guard, overlap and
\* trait-object diagnostics; and once the orphan check has run, every impl
\* without error marker has an OrphanViolation exactly when it is
\* orphan-illegal, whatever else was reported about it.
C10_OrphanIndependent ==
  /\ ( twin.mode = "toggle_orphan" /\ pc = twin.run.pc ) =>
       /\ twin.run.graphs = graphs
       /\ SelectSeq(twin.run.diags, NotOrphan) = SelectSeq(diags, NotOrphan)
  /\ orphan_runs = 1 =>
       \A i \in NodeIds(Cur) :
         ~HasError(Cur, i) =>
           CountOf(Cur, "E0117", i) = IF impl_item(Cur, i).orphan_ok THEN 0 ELSE 1

C10_Witness ==
  /\ twin.mode = "toggle_orphan"
  /\ pc = "Done"
  /\ twin.run.pc = "Done"
  /\ \E j \in NodeIds(Cur) :
       /\ j # twin.k
       /\ ConflictReported(Cur, twin.k, j)
       /\ CountOf(Cur, "E0117", twin.k) = 1
       /\ CountOf(twin.run, "E0117", twin.k) = 0
       /\ ConflictReported(twin.run, twin.k, j)
====
